---- MODULE Spec2Model ----
(***************************************************************************)
(* The incremental synchronisation of a user's liked tracks into a         *)
(* spreadsheet: getNewSavedTracks (the boundary walk over the paged        *)
(* listing), the artist-genre enrichment in chunks, and the sheet writes   *)
(* of updateLikedSongsSheet.                                               *)
(*                                                                         *)
(* Text values are strings, "" is the empty cell.  A joined string is      *)
(* built with \o as Array.join builds it.  Artist ids are opaque: they are *)
(* numbers here, and never reach a cell.                                   *)
(***************************************************************************)
EXTENDS Integers, Sequences, FiniteSets, TLC

\* ------------------------------------------------------------------ bounds
\* The track ids of the universe are t1 .. t<MaxTracks>.
MaxTracks == 3
\* How many sync runs a behaviour holds.
MaxRuns == 2
\* The largest number of artists of the wide listings (the chunking cases).
MaxArtistCount == 120
\* the most triggers the project has at first, and the last trigger id
MaxTriggers == 3
MaxTriggerId == MaxTriggers + 3

\* ------------------------------------------------------- program constants
\* const chunkSize = 50
chunkSize == 50

\* ---------------------------------------------------------------- helpers
Min(a, b) == IF a < b THEN a ELSE b
Max(a, b) == IF a > b THEN a ELSE b

Range(lo, hi) == [k \in 1..Max(hi - lo + 1, 0) |-> lo + k - 1]

SeqToSet(s) == {s[k] : k \in 1..Len(s)}

\* The concatenation of a sequence of sequences (by halves: the depth of the
\* recursion stays logarithmic)
RECURSIVE Flatten(_)
Flatten(ss) ==
  IF Len(ss) = 0 THEN <<>>
  ELSE IF Len(ss) = 1 THEN ss[1]
  ELSE Flatten(SubSeq(ss, 1, Len(ss) \div 2)) \o Flatten(SubSeq(ss, Len(ss) \div 2 + 1, Len(ss)))

\* Array.prototype.join(sep)
RECURSIVE Join(_, _)
Join(s, sep) ==
  IF Len(s) = 0 THEN ""
  ELSE IF Len(s) = 1 THEN s[1]
  ELSE Join(SubSeq(s, 1, Len(s) \div 2), sep) \o sep
         \o Join(SubSeq(s, Len(s) \div 2 + 1, Len(s)), sep)

\* Array.prototype.indexOf: the first 0-based position of x, -1 when absent
IndexOf(s, x) ==
  IF \E k \in 1..Len(s) : s[k] = x
  THEN (CHOOSE k \in 1..Len(s) : s[k] = x /\ \A j \in 1..(k - 1) : s[j] # x) - 1
  ELSE -1

\* Array.prototype.slice(from, to), 0-based, to exclusive and clamped
Slice(s, from, to) == SubSeq(s, from + 1, Min(to, Len(s)))

\* The values added one by one to a JavaScript Set, read back with
\* Array.from: insertion order, a value added again keeps its first place.
SetOf(xs) ==
  LET first == SelectSeq([k \in 1..Len(xs) |-> k],
                         LAMBDA k : \A j \in 1..(k - 1) : xs[j] # xs[k])
  IN [m \in 1..Len(first) |-> xs[first[m]]]

\* ------------------------------------------------------------ the upstream
TrackIds == {"t" \o ToString(k) : k \in 1..MaxTracks}

ArtistName(a) == "A" \o ToString(a)

\* A saved-track object of the listing (SpotifySavedTrackObject).
Item(t, as) ==
  [added_at |-> "at-" \o t,
   track |-> [id |-> t,
              name |-> "name-" \o t,
              artists |-> [k \in 1..Len(as) |-> [id |-> as[k], name |-> ArtistName(as[k])]],
              album |-> [name |-> "album-" \o t, release_date |-> "rel-" \o t],
              external_urls |-> [spotify |-> "link-" \o t]]]

ItemIds(items) == [k \in 1..Len(items) |-> items[k].track.id]

\* What the artists endpoint answers for one artist id: the genres array, or
\* no genres field at all ("none").
HasGenres(a) == a % 5 # 0
ServerGenres(a) ==
  CASE a % 5 = 1 -> <<"rock">>
    [] a % 5 = 2 -> <<"rock", "pop">>
    [] a % 5 = 3 -> <<"pop", "jazz">>
    [] OTHER -> <<>>

\* The artists of the small catalogue's tracks: track t<k> is by artist k and,
\* for k > 1, by artist k - 1 as well.
SmallArtists(k) == IF k = 1 THEN <<1>> ELSE <<k - 1, k>>
SmallItem(k) == Item("t" \o ToString(k), SmallArtists(k))

\* All sequences without repetition over a set, up to the set's size.
RECURSIVE Arrangements(_)
Arrangements(S) ==
  IF S = {} THEN {<<>>}
  ELSE {<<>>} \cup UNION {{<<x>> \o r : r \in Arrangements(S \ {x})} : x \in S}

\* All ways to cut a sequence into consecutive non-empty pages; the empty
\* collection is one empty page.
RECURSIVE Paginations(_)
Paginations(s) ==
  IF s = <<>> THEN {<<>>}
  ELSE UNION {{<<SubSeq(s, 1, n)>> \o rest : rest \in Paginations(SubSeq(s, n + 1, Len(s)))}
              : n \in 1..Len(s)}
Paged(s) == IF s = <<>> THEN {<< <<>> >>} ELSE Paginations(s)

\* The numbers of a set, the greatest first
RECURSIVE Descending(_)
Descending(S) ==
  IF S = {} THEN <<>>
  ELSE LET m == CHOOSE x \in S : \A y \in S : y <= x
       IN <<m>> \o Descending(S \ {m})

\* The listings of the small catalogue: track t<k> was liked at time k, and the
\* listing comes most recently liked first.
SmallListings ==
  {[k \in 1..Len(a) |-> SmallItem(a[k])]
     : a \in {Descending(S) : S \in SUBSET (1..MaxTracks)}}

\* ------------------------------------------------------------- the sheet
\* const header = [...]
Header ==
  <<"Added At", "Release Date", "Track Name", "Artists", "Album Name",
    "Track ID", "Genres", "Track Link">>

KeyColumn == "Track ID"

BlankRow == [c \in 1..Len(Header) |-> ""]
IsBlankRow(r) == \A c \in 1..Len(r) : r[c] = ""

LastContentRow(rows) ==
  IF \E k \in 1..Len(rows) : ~IsBlankRow(rows[k])
  THEN CHOOSE k \in 1..Len(rows) :
         ~IsBlankRow(rows[k]) /\ \A j \in (k + 1)..Len(rows) : IsBlankRow(rows[j])
  ELSE 0

\* sheet.getDataRange().getValues(): the rows down to the last one with
\* content; a sheet holding only empty rows reads as one empty row.
GetValues(rows) ==
  IF rows = <<>> THEN <<>> ELSE SubSeq(rows, 1, Max(1, LastContentRow(rows)))

\* sheet.appendRow(r): after the last row with content
AppendRow(rows, r) == SubSeq(rows, 1, LastContentRow(rows)) \o <<r>>

\* sheet.getRange(1, 1, 1, n).setValues([r])
SetFirstRow(rows, r) == [rows EXCEPT ![1] = r]

\* sheet.insertRowsAfter(1, n): n empty rows below row 1
InsertRowsAfterMut(rows, n) == rows \o [k \in 1..n |-> BlankRow]
InsertRowsAfter(rows, n) ==
  <<rows[1]>> \o [k \in 1..n |-> BlankRow] \o Tail(rows)

\* sheet.getRange(2, 1, n, width).setValues(newData)
SetValuesMut(rows, newData) == <<rows[1]>> \o newData
SetValues(rows, newData) ==
  <<rows[1]>> \o newData \o SubSeq(rows, Len(newData) + 2, Len(rows))

\* --------------------------------------------------------- the remote API
\* A response: its status code, and whether its body parses as the declared
\* shape (JSON.parse and the field accesses inside the try block).
Responses ==
  {[code |-> 200, parses |-> TRUE], [code |-> 200, parses |-> FALSE],
   [code |-> 201, parses |-> TRUE], [code |-> 401, parses |-> TRUE],
   [code |-> 429, parses |-> TRUE], [code |-> 500, parses |-> TRUE]}

\* getSpotifyService(): throws when the client id or the client secret is not
\* set in the script properties
GetSpotifyServiceThrows(creds) == ~creds

\* isSpotifyAuthorized(): try { return getSpotifyService().hasAccess(); }
\* catch (e) { return false; }
IsSpotifyAuthorizedMut(creds, token) == TRUE
IsSpotifyAuthorized(creds, token) ==
  IF GetSpotifyServiceThrows(creds) THEN FALSE ELSE token

\* fetchSpotifyApi: TRUE when the call returns the parsed body, FALSE for null
ApiSucceeds(access, resp) ==
  access /\ resp.code \in {200, 201} /\ resp.parses

\* fetchSpotifyApi: whether the call sends an HTTP request at all
ApiRequestsMut(access) == TRUE
ApiRequests(access) == access

\* fetchSpotifyApi: resetSpotifyService() on 401
ApiResetsMut(access, resp) == access /\ resp.code \in {401, 429}
ApiResets(access, resp) == access /\ resp.code = 401

\* One page fetch of getNewSavedTracks: TRUE when the page is processed
PageSucceedsMut(access, resp) == ApiSucceeds(access, resp)
PageSucceeds(access, resp) == access /\ resp.code = 200 /\ resp.parses

\* One page fetch of getNewSavedTracks, getAllMySavedTracks or
\* getFollowedArtists: resetSpotifyService() on 401
PageResetsMut(access, resp) == FALSE
PageResets(access, resp) == access /\ resp.code = 401

\* The body of GET artists?ids=...: one artist object per requested id
ArtistsBody(ids) ==
  [k \in 1..Len(ids) |->
     [id |-> ids[k], hasGenres |-> HasGenres(ids[k]), genres |-> ServerGenres(ids[k])]]

\* getArtistsDetails: the ids that go into the request
RequestedIdsMut(artistIds) == artistIds
RequestedIds(artistIds) ==
  IF Len(artistIds) > 50 THEN Slice(artistIds, 0, 50) ELSE artistIds

\* ------------------------------------------------------ getNewSavedTracks
\* existingTrackIds.has(item.track.id)
IsKnownMut(id, known) == FALSE
IsKnown(id, known) == id \in known

\* for (const item of pageData.items): the items pushed before the first
\* known one, and whether a known one was found
RECURSIVE ScanItems(_, _)
ScanItems(items, known) ==
  IF items = <<>> THEN [new |-> <<>>, found |-> FALSE]
  ELSE IF IsKnown(Head(items).track.id, known) THEN [new |-> <<>>, found |-> TRUE]
  ELSE LET r == ScanItems(Tail(items), known)
       IN [new |-> <<Head(items)>> \o r.new, found |-> r.found]

\* pageData.next: the cursor of the following page, 0 for null
NextOfMut(ps, n) == n
NextOfWrapMut(ps, n) == IF n < Len(ps) THEN n + 1 ELSE 1
NextOf(ps, n) == IF n < Len(ps) THEN n + 1 ELSE 0

\* --------------------------------------------------- updateLikedSongsSheet
\* The ids found in the key column of the sheet's data rows
ExistingIdsMut(data, idx) == {}
ExistingIds(data, idx) ==
  IF Len(data) > 1 /\ idx # -1
  THEN {data[r][idx + 1] : r \in 2..Len(data)} \ {""}
  ELSE {}

\* newTracks.forEach(item => item.track.artists.forEach(artist =>
\* artistIds.add(artist.id))), then Array.from(artistIds)
CollectArtistIds(tracks) ==
  SetOf(Flatten([t \in 1..Len(tracks) |->
                   [k \in 1..Len(tracks[t].track.artists) |-> tracks[t].track.artists[k].id]]))

\* artistsDetails.forEach(...): artistGenresMap.set(artist.id, artist.genres)
MergeGenresMut(map, details) ==
  LET got == {k \in 1..Len(details) : details[k].hasGenres}
  IN [a \in {details[k].id : k \in got} |->
        details[CHOOSE j \in got : details[j].id = a].genres]
MergeGenres(map, details) ==
  LET got == {k \in 1..Len(details) : details[k].hasGenres}
      ids == {details[k].id : k \in got}
  IN [a \in DOMAIN map \cup ids |->
        IF a \in ids
        THEN LET k == CHOOSE j \in got :
                        details[j].id = a /\ \A m \in got : details[m].id = a => m <= j
             IN details[k].genres
        ELSE map[a]]

\* track.artists.forEach(artist => genres.forEach(genre => trackGenres.add(genre))),
\* then Array.from(trackGenres)
GenresInOrder(track, map) ==
  Flatten([k \in 1..Len(track.artists) |->
             IF track.artists[k].id \in DOMAIN map THEN map[track.artists[k].id] ELSE <<>>])

TrackGenresMut(track, map) == GenresInOrder(track, map)
TrackGenres(track, map) == SetOf(GenresInOrder(track, map))

\* newTracks.map(item => [...]): the row of one saved track
RenderRow(item, map) ==
  <<item.added_at,
    item.track.album.release_date,
    item.track.name,
    Join([k \in 1..Len(item.track.artists) |-> item.track.artists[k].name], ", "),
    item.track.album.name,
    item.track.id,
    Join(TrackGenres(item.track, map), ", "),
    item.track.external_urls.spotify>>

RenderRows(items, map) == [k \in 1..Len(items) |-> RenderRow(items[k], map)]

\* ------------------------------------------------------------------ state
VARIABLES
  pages,              \* the upstream listing of saved tracks, page by page
  hasAccess,          \* the OAuth2 service holds a usable token
  sheetExists,        \* the spreadsheet has a sheet "Spotify Liked Songs"
  sheet,              \* its rows, row 1 first
  pc,                 \* where the run of updateLikedSongsSheet stands
  outcome,            \* how the last run ended ("none": no run since a change)
  runs,               \* runs started so far
  lastRow,            \* let lastRow
  existingTrackIds,   \* const existingTrackIds
  nextUrl,            \* let nextUrl: a page number, 0 for null
  foundExistingTrack, \* let foundExistingTrack
  newTracks,          \* const newTracks (of the walk, then of the caller)
  walkResult,         \* what getNewSavedTracks returned: "list" or "null"
  uniqueArtistIds,    \* const uniqueArtistIds
  i,                  \* the chunk loop's i
  artistGenresMap,    \* const artistGenresMap
  fetched,            \* the pages requested by this run, in order
  lookups,            \* the getArtistsDetails calls of this run, in order
  writes,             \* the store writes of this run, in order
  startExists,        \* sheetExists when the run started
  startSheet,         \* sheet when the run started
  prevOutcome,        \* outcome when the run started: how the run before it ended
  startAccess,        \* hasAccess when the run started
  saw401,             \* a remote call of this run got status 401
  clean,              \* so far: no sheet at first, only likes upstream, no failed run
  followedPages,      \* the upstream listing of followed artists, page by page
  artistSheetExists,  \* the spreadsheet has a sheet "Spotify Followed Artists"
  artistSheet,        \* its rows, row 1 first
  fa,                 \* updateFollowedArtistsSheet: its position and locals
  tw,                 \* getAllMySavedTracks: its position and locals
  credentials,        \* SPOTIFY_CLIENT_ID and SPOTIFY_CLIENT_SECRET are set
  probe,              \* the last direct call of a function of the remote boundary
  triggers            \* the project's triggers, in the order of getProjectTriggers

vars ==
  <<pages, hasAccess, sheetExists, sheet, pc, outcome, runs, lastRow,
    existingTrackIds, nextUrl, foundExistingTrack, newTracks, walkResult,
    uniqueArtistIds, i, artistGenresMap, fetched, lookups, writes,
    startExists, startSheet, prevOutcome, startAccess, saw401, clean, followedPages,
    artistSheetExists, artistSheet, fa, tw, credentials, probe, triggers>>

store == <<sheetExists, sheet>>
walkVars == <<nextUrl, foundExistingTrack, newTracks, walkResult, fetched>>
enrichVars == <<uniqueArtistIds, i, artistGenresMap, lookups>>
startVars ==
  <<lastRow, existingTrackIds, startExists, startSheet, prevOutcome, runs, startAccess>>
artistStore == <<artistSheetExists, artistSheet>>
aux == <<credentials, probe, triggers>>
followVars == <<followedPages, artistStore, fa, tw, aux>>

EmptyMap == [a \in {} |-> <<>>]

\* The genre index a run without lookup failure builds for the given tracks
FullMap(items) ==
  LET ids == SeqToSet(CollectArtistIds(items))
  IN [a \in {x \in ids : HasGenres(x)} |-> ServerGenres(a)]

\* The sheets a run may find: none, an empty one, one empty row, the header
\* alone, and the header above the rows that earlier syncs wrote for a listing.
InitialSheets ==
  {[exists |-> FALSE, rows |-> <<>>],
   [exists |-> TRUE, rows |-> <<>>],
   [exists |-> TRUE, rows |-> <<BlankRow>>],
   [exists |-> TRUE, rows |-> <<Header>>]}
  \cup {[exists |-> TRUE, rows |-> <<Header>> \o RenderRows(l, FullMap(l))]
        : l \in SmallListings \ {<<>>}}

\* updateFollowedArtistsSheet not running, its locals as declared
FaIdle ==
  [pc |-> "idle", outcome |-> "none", lastRow |-> 0, existingArtistIds |-> {},
   nextUrl |-> 0, allArtists |-> <<>>, result |-> "none", newArtists |-> <<>>,
   fetched |-> <<>>, writes |-> <<>>, startExists |-> FALSE, startSheet |-> <<>>]

\* getAllMySavedTracks not running, its locals as declared
TwIdle ==
  [pc |-> "idle", nextUrl |-> 0, allTracks |-> <<>>, result |-> "none", fetched |-> <<>>]

\* Nobody is followed, there is no artists sheet, and neither
\* updateFollowedArtistsSheet nor getAllMySavedTracks is called.
ProbeIdle ==
  [fn |-> "none", access |-> FALSE, given |-> 0, code |-> 0, body |-> "none",
   result |-> "none", reset |-> FALSE, requested |-> FALSE, sent |-> <<>>]

\* The credentials are set, no function is called directly, no trigger is
\* installed.
AuxIdle ==
  /\ credentials = TRUE
  /\ probe = ProbeIdle
  /\ triggers = <<>>

FollowIdle ==
  /\ AuxIdle
  /\ followedPages = << <<>> >>
  /\ artistSheetExists = FALSE
  /\ artistSheet = <<>>
  /\ fa = FaIdle
  /\ tw = TwIdle

\* The ways a run ends in failure
Failures == {"unauthorized", "fetchfail", "writefail", "thrown"}

\* clean stays while no run fails
CleanStep == clean' = (clean /\ outcome' \notin Failures)

LocalsInit ==
  /\ pc = "idle"
  /\ outcome = "none"
  /\ lastRow = 0
  /\ existingTrackIds = {}
  /\ nextUrl = 0
  /\ foundExistingTrack = FALSE
  /\ newTracks = <<>>
  /\ walkResult = "none"
  /\ uniqueArtistIds = <<>>
  /\ i = 0
  /\ artistGenresMap = EmptyMap
  /\ fetched = <<>>
  /\ lookups = <<>>
  /\ writes = <<>>
  /\ prevOutcome = "none"
  /\ startAccess = hasAccess
  /\ saw401 = FALSE

Init ==
  /\ pages \in UNION {Paged(l) : l \in SmallListings}
  /\ hasAccess = TRUE
  /\ \E s \in InitialSheets :
       /\ sheetExists = s.exists
       /\ sheet = s.rows
       /\ startExists = s.exists
       /\ startSheet = s.rows
  /\ runs = 0
  /\ clean = ~sheetExists
  /\ LocalsInit
  /\ FollowIdle

\* ---------------------------------------------------------------- actions
\* updateLikedSongsSheet, from its call to the first page fetch: the
\* authorization check and the scan of the sheet's key column.
StartRun ==
  /\ pc = "idle"
  /\ runs < MaxRuns
  /\ runs' = runs + 1
  /\ prevOutcome' = outcome
  /\ startAccess' = hasAccess
  /\ startExists' = sheetExists
  /\ startSheet' = sheet
  /\ fetched' = <<>>
  /\ lookups' = <<>>
  /\ writes' = <<>>
  /\ newTracks' = <<>>
  /\ foundExistingTrack' = FALSE
  /\ walkResult' = "none"
  /\ uniqueArtistIds' = <<>>
  /\ i' = 0
  /\ artistGenresMap' = EmptyMap
  /\ IF ~IsSpotifyAuthorized(credentials, hasAccess)
     THEN /\ pc' = "idle"
          /\ outcome' = "unauthorized"
          /\ lastRow' = 0
          /\ existingTrackIds' = {}
          /\ nextUrl' = 0
     ELSE LET data == IF sheetExists THEN GetValues(sheet) ELSE <<>>
          IN /\ pc' = "walk"
             /\ outcome' = "running"
             /\ lastRow' = Len(data)
             /\ existingTrackIds' = ExistingIds(data, IndexOf(Header, KeyColumn))
             /\ nextUrl' = 1
  /\ UNCHANGED <<pages, hasAccess, store>>
  /\ saw401' = FALSE
  /\ CleanStep
  /\ UNCHANGED followVars

\* getNewSavedTracks: one turn of the while loop, one page fetch.
FetchPage ==
  /\ pc = "walk"
  /\ \E resp \in Responses :
       LET scan == ScanItems(pages[nextUrl], existingTrackIds)
           next == IF scan.found THEN 0 ELSE NextOf(pages, nextUrl)
       IN /\ fetched' = IF hasAccess THEN Append(fetched, nextUrl) ELSE fetched
          /\ hasAccess' = (hasAccess /\ ~PageResets(hasAccess, resp))
          /\ saw401' = (saw401 \/ (hasAccess /\ resp.code = 401))
          /\ IF PageSucceeds(hasAccess, resp)
             THEN /\ newTracks' = newTracks \o scan.new
                  /\ foundExistingTrack' = scan.found
                  /\ nextUrl' = next
                  /\ pc' = IF next # 0 /\ ~scan.found THEN "walk" ELSE "walked"
                  /\ walkResult' = IF next # 0 /\ ~scan.found THEN "none" ELSE "list"
             ELSE /\ pc' = "walked"
                  /\ walkResult' = "null"
                  /\ UNCHANGED <<newTracks, foundExistingTrack, nextUrl>>
  /\ UNCHANGED <<pages, store, outcome, startVars, enrichVars, writes>>
  /\ CleanStep
  /\ UNCHANGED followVars

\* if (newTracks === null) return;
ReturnFetchFailedMut ==
  /\ pc = "walked"
  /\ walkResult = "null"
  /\ pc' = IF Len(newTracks) > 0 THEN "ensure" ELSE "idle"
  /\ outcome' = IF Len(newTracks) > 0 THEN outcome ELSE "fetchfail"
  /\ UNCHANGED <<pages, hasAccess, store, startVars, walkVars, enrichVars, writes>>
  /\ CleanStep
  /\ UNCHANGED <<saw401, followVars>>
ReturnFetchFailed ==
  /\ pc = "walked"
  /\ walkResult = "null"
  /\ pc' = "idle"
  /\ outcome' = "fetchfail"
  /\ UNCHANGED <<pages, hasAccess, store, startVars, walkVars, enrichVars, writes>>
  /\ CleanStep
  /\ UNCHANGED <<saw401, followVars>>

\* if (newTracks.length === 0) return;
ReturnNoNewTracksMut ==
  /\ pc = "walked"
  /\ walkResult = "list"
  /\ Len(newTracks) = 0
  /\ pc' = "idle"
  /\ outcome' = "nonew"
  /\ sheetExists' = TRUE
  /\ sheet' = IF sheet = <<>> THEN <<Header>> ELSE SetFirstRow(sheet, Header)
  /\ writes' = Append(writes, "setHeader")
  /\ UNCHANGED <<pages, hasAccess, startVars, walkVars, enrichVars>>
  /\ CleanStep
  /\ UNCHANGED <<saw401, followVars>>
ReturnNoNewTracks ==
  /\ pc = "walked"
  /\ walkResult = "list"
  /\ Len(newTracks) = 0
  /\ pc' = "idle"
  /\ outcome' = "nonew"
  /\ UNCHANGED <<pages, hasAccess, store, startVars, walkVars, enrichVars, writes>>
  /\ CleanStep
  /\ UNCHANGED <<saw401, followVars>>

\* The artist ids of the new tracks, collected into a Set and read back.
CollectArtistsMut ==
  /\ pc = "walked"
  /\ walkResult = "list"
  /\ Len(newTracks) > 0
  /\ uniqueArtistIds' = CollectArtistIds(newTracks)
  /\ i' = 0
  /\ pc' = IF Len(uniqueArtistIds') > 0 THEN "enrich" ELSE "ensure"
  /\ sheetExists' = TRUE
  /\ sheet' = IF sheetExists THEN sheet ELSE <<>>
  /\ writes' = IF sheetExists THEN writes ELSE <<"insertSheet">>
  /\ UNCHANGED <<pages, hasAccess, outcome, startVars, walkVars,
                 artistGenresMap, lookups>>
  /\ CleanStep
  /\ UNCHANGED <<saw401, followVars>>
CollectArtists ==
  /\ pc = "walked"
  /\ walkResult = "list"
  /\ Len(newTracks) > 0
  /\ uniqueArtistIds' = CollectArtistIds(newTracks)
  /\ i' = 0
  /\ pc' = IF Len(uniqueArtistIds') > 0 THEN "enrich" ELSE "ensure"
  /\ UNCHANGED <<pages, hasAccess, store, outcome, startVars, walkVars,
                 artistGenresMap, lookups, writes>>
  /\ CleanStep
  /\ UNCHANGED <<saw401, followVars>>

\* for (let i = 0; i < uniqueArtistIds.length; i += chunkSize): one turn,
\* one getArtistsDetails(chunk) call.
ChunkOfMut(ids, from) == Slice(ids, from, from + chunkSize - 1)
ChunkOf(ids, from) == Slice(ids, from, from + chunkSize)

\* if (artistsDetails) { ...; if (i + chunkSize < uniqueArtistIds.length)
\* Utilities.sleep(200); }: whether the turn ends with the pause
PausesAfter(ok, from, n) == ok /\ from + chunkSize < n

LookupChunk ==
  /\ pc = "enrich"
  /\ \E resp \in Responses :
       LET chunk == ChunkOf(uniqueArtistIds, i)
           ok == ApiSucceeds(hasAccess, resp)
       IN /\ lookups' = Append(lookups,
                          [ids |-> RequestedIds(chunk),
                           requested |-> ApiRequests(hasAccess),
                           reset |-> ApiResets(hasAccess, resp),
                           ok |-> ok,
                           paused |-> PausesAfter(ok, i, Len(uniqueArtistIds))])
          /\ hasAccess' = (hasAccess /\ ~ApiResets(hasAccess, resp))
          /\ saw401' = (saw401 \/ (ApiRequests(hasAccess) /\ resp.code = 401))
          /\ artistGenresMap' =
               IF ok THEN MergeGenres(artistGenresMap, ArtistsBody(RequestedIds(chunk)))
               ELSE artistGenresMap
  /\ i' = i + chunkSize
  /\ pc' = IF i' < Len(uniqueArtistIds) THEN "enrich" ELSE "ensure"
  /\ uniqueArtistIds' = uniqueArtistIds
  /\ UNCHANGED <<pages, store, outcome, startVars, walkVars, writes>>
  /\ CleanStep
  /\ UNCHANGED followVars

\* The store writes of the try block of updateLikedSongsSheet and of
\* updateFollowedArtistsSheet
TryBlock == {"insertSheet", "appendRow", "setHeader", "insertRowsAfter", "setValues"}

\* How the function ends when a statement throws: inside the try block the
\* catch logs the error and the function returns; elsewhere the error goes to
\* the caller.
AfterThrowMut(stmt) == "thrown"
AfterThrow(stmt) == IF stmt \in TryBlock THEN "writefail" ELSE "thrown"

\* The store writes that put the header in place, by the state the run found:
\* no sheet, a sheet without rows, a sheet whose one row is empty, or a sheet
\* with content.
HeaderWritesMut(exists, lr, firstRowBlank) ==
  IF ~exists THEN <<"insertSheet", "appendRow">>
  ELSE IF lr = 0 THEN <<"appendRow">>
  ELSE <<>>
HeaderWrites(exists, lr, firstRowBlank) ==
  IF ~exists THEN <<"insertSheet", "appendRow">>
  ELSE IF lr = 0 THEN <<"appendRow">>
  ELSE IF lr = 1 /\ firstRowBlank THEN <<"setHeader">>
  ELSE <<>>

\* One store write applied to the store
ApplyWrite(op, st) ==
  CASE op = "insertSheet" -> [exists |-> TRUE, rows |-> <<>>]
    [] op = "appendRow" -> [st EXCEPT !.rows = AppendRow(st.rows, Header)]
    [] op = "setHeader" -> [st EXCEPT !.rows = SetFirstRow(st.rows, Header)]

RECURSIVE ApplyWrites(_, _)
ApplyWrites(ops, st) ==
  IF ops = <<>> THEN st ELSE ApplyWrites(Tail(ops), ApplyWrite(Head(ops), st))

\* try { if (!sheet) ... else if (lastRow === 0) ... else if (...) ... }: the
\* header writes; the write after the first `done` ones throws, if any is left.
EnsureSheet ==
  /\ pc = "ensure"
  /\ LET plan == HeaderWrites(sheetExists, lastRow,
                              sheetExists /\ sheet # <<>> /\ Join(sheet[1], "") = "")
     IN \E done \in 0..Len(plan) :
          LET st == ApplyWrites(SubSeq(plan, 1, done),
                                [exists |-> sheetExists, rows |-> sheet])
          IN /\ sheetExists' = st.exists
             /\ sheet' = st.rows
             /\ writes' = writes \o SubSeq(plan, 1, done)
             /\ IF done = Len(plan)
                THEN pc' = "insert" /\ outcome' = outcome
                ELSE pc' = "idle" /\ outcome' = AfterThrow(plan[done + 1])
  /\ UNCHANGED <<pages, hasAccess, startVars, walkVars, enrichVars>>
  /\ CleanStep
  /\ UNCHANGED <<saw401, followVars>>

\* sheet.insertRowsAfter(1, newData.length)
InsertRows ==
  /\ pc = "insert"
  /\ Len(newTracks) > 0
  /\ \E throws \in BOOLEAN :
       IF throws
       THEN /\ pc' = "idle"
            /\ outcome' = AfterThrow("insertRowsAfter")
            /\ UNCHANGED <<sheet, writes>>
       ELSE /\ pc' = "setvalues"
            /\ outcome' = outcome
            /\ sheet' = InsertRowsAfter(sheet, Len(newTracks))
            /\ writes' = Append(writes, "insertRowsAfter")
  /\ UNCHANGED <<pages, hasAccess, sheetExists, startVars, walkVars, enrichVars>>
  /\ CleanStep
  /\ UNCHANGED <<saw401, followVars>>

\* range.setValues(newData)
WriteRows ==
  /\ pc = "setvalues"
  /\ \E throws \in BOOLEAN :
       IF throws
       THEN /\ outcome' = AfterThrow("setValues")
            /\ UNCHANGED <<sheet, writes>>
       ELSE /\ outcome' = "ok"
            /\ sheet' = SetValues(sheet, RenderRows(newTracks, artistGenresMap))
            /\ writes' = Append(writes, "setValues")
  /\ pc' = "idle"
  /\ UNCHANGED <<pages, hasAccess, sheetExists, startVars, walkVars, enrichVars>>
  /\ CleanStep
  /\ UNCHANGED <<saw401, followVars>>

\* ------------------------------------------------------ the user, upstream
LocalsReset ==
  /\ pc' = "idle"
  /\ outcome' = "none"
  /\ lastRow' = 0
  /\ existingTrackIds' = {}
  /\ nextUrl' = 0
  /\ foundExistingTrack' = FALSE
  /\ newTracks' = <<>>
  /\ walkResult' = "none"
  /\ uniqueArtistIds' = <<>>
  /\ i' = 0
  /\ artistGenresMap' = EmptyMap
  /\ fetched' = <<>>
  /\ lookups' = <<>>
  /\ writes' = <<>>
  /\ prevOutcome' = "none"
  /\ startAccess' = hasAccess
  /\ saw401' = FALSE
  /\ startExists' = sheetExists
  /\ startSheet' = sheet

\* Between two runs the user likes a track later than every track of the
\* listing: it becomes the first of the listing.
LikeTrack ==
  /\ pc = "idle"
  /\ runs < MaxRuns
  /\ \E k \in 1..MaxTracks :
       /\ \A j \in k..MaxTracks :
            SmallItem(j).track.id \notin SeqToSet(ItemIds(Flatten(pages)))
       /\ pages' \in Paged(<<SmallItem(k)>> \o Flatten(pages))
  /\ LocalsReset
  /\ UNCHANGED <<hasAccess, store, runs, clean, followVars>>

\* Between two runs the user removes a track from the liked tracks.
UnlikeTrack ==
  /\ pc = "idle"
  /\ runs < MaxRuns
  /\ \E k \in 1..Len(Flatten(pages)) :
       LET flat == Flatten(pages)
       IN pages' \in Paged(SubSeq(flat, 1, k - 1) \o SubSeq(flat, k + 1, Len(flat)))
  /\ LocalsReset
  /\ clean' = FALSE
  /\ UNCHANGED <<hasAccess, store, runs, followVars>>

Next ==
  \/ StartRun
  \/ FetchPage
  \/ ReturnFetchFailed
  \/ ReturnNoNewTracks
  \/ CollectArtists
  \/ LookupChunk
  \/ EnsureSheet
  \/ InsertRows
  \/ WriteRows
  \/ LikeTrack
  \/ UnlikeTrack

Spec == Init /\ [][Next]_vars

\* ----------------------------------------------------- what the claims say
\* The position in the flat listing of the first item whose id is known, 0
\* when no item is known.
FirstKnownPos(flat, known) ==
  IF \E k \in 1..Len(flat) : flat[k].track.id \in known
  THEN CHOOSE k \in 1..Len(flat) :
         /\ flat[k].track.id \in known
         /\ \A j \in 1..(k - 1) : flat[j].track.id \notin known
  ELSE 0

\* The longest prefix of the flat listing without a known id
LongestNewPrefix(flat, known) ==
  IF FirstKnownPos(flat, known) = 0 THEN flat
  ELSE SubSeq(flat, 1, FirstKnownPos(flat, known) - 1)

\* The number of items on the pages before page p
RECURSIVE ItemsBefore(_, _)
ItemsBefore(ps, p) == IF p <= 1 THEN 0 ELSE ItemsBefore(ps, p - 1) + Len(ps[p - 1])

\* The page that holds the item at a position of the flat listing
PageOfPos(ps, pos) ==
  CHOOSE p \in 1..Len(ps) : ItemsBefore(ps, p) < pos /\ pos <= ItemsBefore(ps, p) + Len(ps[p])

\* The pages a walk has to fetch: up to the page of the first known id, or all
PagesToFetch(ps, known) ==
  IF FirstKnownPos(Flatten(ps), known) = 0 THEN Len(ps)
  ELSE PageOfPos(ps, FirstKnownPos(Flatten(ps), known))

\* The rows below row 1, as the sheet reads
DataRows(rows) == IF Len(GetValues(rows)) > 1 THEN Tail(GetValues(rows)) ELSE <<>>

StartData == IF startExists THEN DataRows(startSheet) ELSE <<>>

\* The key column of the data rows, empty cells left out
KeyCells(rows) ==
  LET d == DataRows(rows)
  IN SelectSeq([k \in 1..Len(d) |-> d[k][IndexOf(Header, KeyColumn) + 1]], LAMBDA c : c # "")

NoRepetition(s) == Cardinality(SeqToSet(s)) = Len(s)

RunEnded == pc = "idle" /\ outcome \notin {"none", "running"}

\* C1: when every page fetch of getNewSavedTracks succeeded, the list it
\* returns is the longest prefix of the upstream listing without a known id, in
\* upstream order; the pages fetched are page 1 up to the page holding the
\* first known id and none after it; if the first item is known the list is
\* empty and exactly one page was fetched.
C1_BoundaryPrefix ==
  walkResult = "list" =>
    /\ newTracks = LongestNewPrefix(Flatten(pages), existingTrackIds)
    /\ fetched = Range(1, PagesToFetch(pages, existingTrackIds))
    /\ (FirstKnownPos(Flatten(pages), existingTrackIds) = 1 =>
          newTracks = <<>> /\ fetched = <<1>>)

\* A walk that stopped at a known id with new items before it and a page
\* left unfetched.
C1_Witness ==
  /\ walkResult = "list"
  /\ foundExistingTrack
  /\ Len(newTracks) >= 1
  /\ Len(fetched) < Len(pages)

\* C2: a run that directly follows a run without failure, the upstream
\* unchanged in between, and that has no failure itself finds no new item,
\* writes nothing and leaves the sheet as the first run left it.
C2_ResyncIdempotent ==
  (RunEnded /\ prevOutcome \in {"ok", "nonew"} /\ outcome \in {"ok", "nonew"}) =>
    /\ outcome = "nonew"
    /\ newTracks = <<>>
    /\ writes = <<>>
    /\ sheetExists = startExists
    /\ sheet = startSheet

\* A second run right after a run that wrote rows.
C2_Witness ==
  /\ RunEnded
  /\ prevOutcome = "ok"
  /\ outcome = "nonew"
  /\ Len(DataRows(sheet)) >= 2

C4_NoDuplicateIds == NoRepetition(KeyCells(sheet))

\* A run that wrote rows after a run whose store write failed.
C4_Witness ==
  /\ RunEnded
  /\ prevOutcome = "writefail"
  /\ outcome = "ok"
  /\ Len(KeyCells(sheet)) >= 2
  /\ Len(StartData) >= 1

\* The sheet a run found had the header and at least one data row
StartPopulated == startExists /\ Len(GetValues(startSheet)) > 1

\* The sheet a run found was absent, or had no data row
StartAbsent == ~startExists
StartEmpty == startExists /\ Len(GetValues(startSheet)) <= 1

\* C8: a run whose walk returns the empty list on a populated sheet makes no
\* store write: the sheet is cell for cell what it was.
C8_EmptyNoOp ==
  (RunEnded /\ walkResult = "list" /\ newTracks = <<>> /\ StartPopulated) =>
    /\ writes = <<>>
    /\ sheetExists = startExists
    /\ sheet = startSheet

C8_Witness ==
  /\ RunEnded
  /\ walkResult = "list"
  /\ newTracks = <<>>
  /\ StartPopulated
  /\ Len(Flatten(pages)) >= 1

HeaderInPlace == sheetExists /\ sheet # <<>> /\ sheet[1] = Header

WideListing(n, c1, c2, shared) ==
  LET also == IF shared THEN <<1>> ELSE <<>>
  IN IF c1 >= n THEN <<Item("t1", Range(1, n))>>
     ELSE IF c2 >= n THEN <<Item("t1", Range(1, c1)), Item("t2", also \o Range(c1 + 1, n))>>
     ELSE <<Item("t1", Range(1, c1)), Item("t2", also \o Range(c1 + 1, c2)),
            Item("t3", also \o Range(c2 + 1, n))>>

WideListings ==
  {WideListing(n, n, n, FALSE) : n \in 0..MaxArtistCount}
  \cup {WideListing(n, c[1], c[2], sh) :
          n \in {2, 100, MaxArtistCount},
          c \in {<<0, 1>>, <<1, 2>>, <<50, 100>>, <<50, 51>>, <<100, 101>>},
          sh \in BOOLEAN}
  \cup {<<>>}

InitWide ==
  /\ pages \in {<<l>> : l \in WideListings}
  /\ hasAccess = TRUE
  /\ \E s \in {[exists |-> FALSE, rows |-> <<>>], [exists |-> TRUE, rows |-> <<Header>>]} :
       /\ sheetExists = s.exists
       /\ sheet = s.rows
       /\ startExists = s.exists
       /\ startSheet = s.rows
  /\ runs = MaxRuns - 1
  /\ clean = ~sheetExists
  /\ LocalsInit
  /\ FollowIdle

NextRun ==
  \/ StartRun
  \/ FetchPage
  \/ ReturnFetchFailed
  \/ ReturnNoNewTracks
  \/ CollectArtists
  \/ LookupChunk
  \/ EnsureSheet
  \/ InsertRows
  \/ WriteRows

SpecEnrich == InitWide /\ [][NextRun]_vars

\* ------------------------------------------- what the claims say: genres
\* The genre names the artists endpoint uses
AllGenres == {"rock", "pop", "jazz"}

\* Where the index offers genre x to a track: <<artist position, position in
\* that artist's genre list>>
Offers(track, map, x) ==
  {p \in (1..Len(track.artists)) \X (1..Cardinality(AllGenres)) :
     /\ track.artists[p[1]].id \in DOMAIN map
     /\ p[2] <= Len(map[track.artists[p[1]].id])
     /\ map[track.artists[p[1]].id][p[2]] = x}

Earlier(p, q) == p[1] < q[1] \/ (p[1] = q[1] /\ p[2] < q[2])

FirstOffer(track, map, x) ==
  CHOOSE p \in Offers(track, map, x) :
    \A q \in Offers(track, map, x) : q = p \/ Earlier(p, q)

\* The genres offered to the track, each once, by first offer
FirstSeenUnion(track, map) ==
  LET seen == {x \in AllGenres : Offers(track, map, x) # {}}
      first == [x \in seen |-> FirstOffer(track, map, x)]
  IN CHOOSE g \in Arrangements(seen) :
       /\ SeqToSet(g) = seen
       /\ \A a, b \in 1..Len(g) : a < b => Earlier(first[g[a]], first[g[b]])

GenreColumn == IndexOf(Header, "Genres") + 1

\* C5: the genre cell written for a track is the union of the genre lists the
\* index holds for the track's artists, each genre once, ordered by first
\* artist and then by first position in that artist's list; artists absent
\* from the index contribute nothing.
C5_GenreUnion ==
  (RunEnded /\ outcome = "ok") =>
    \A k \in 1..Len(newTracks) :
      sheet[k + 1][GenreColumn] =
        Join(FirstSeenUnion(newTracks[k].track, artistGenresMap), ", ")

\* A track by an artist with {rock} and an artist with {rock, pop}.
C5_Witness ==
  /\ RunEnded
  /\ outcome = "ok"
  /\ Len(newTracks) = 1
  /\ Len(newTracks[1].track.artists) = 2
  /\ DOMAIN artistGenresMap = {1, 2}
  /\ artistGenresMap[1] = <<"rock">>
  /\ artistGenresMap[2] = <<"rock", "pop">>
  /\ sheet[2][GenreColumn] = "rock, pop"

\* The chunk loop of the run is over
EnrichDone ==
  \/ pc \in {"ensure", "insert", "setvalues"}
  \/ pc = "idle" /\ outcome \in {"ok", "writefail"}

Ceil(n, d) == (n + d - 1) \div d

ArtistIdsOf(items) ==
  UNION {{items[t].track.artists[k].id : k \in 1..Len(items[t].track.artists)}
         : t \in 1..Len(items)}

\* C6: for the n unique artist ids of the new tracks the run makes
\* ceil(n / 50) lookups; every lookup but the last asks for 50 ids, the last
\* for n - 50 * (ceil(n / 50) - 1); the lookups are pairwise disjoint and
\* together ask for every id, in order.
C6_Chunking ==
  EnrichDone =>
    LET n == Len(uniqueArtistIds)
        c == Len(lookups)
    IN /\ NoRepetition(uniqueArtistIds)
       /\ SeqToSet(uniqueArtistIds) = ArtistIdsOf(newTracks)
       /\ c = Ceil(n, 50)
       /\ \A k \in 1..(c - 1) : Len(lookups[k].ids) = 50
       /\ c > 0 => Len(lookups[c].ids) = n - 50 * (c - 1)
       /\ \A j, k \in 1..c :
            j # k => SeqToSet(lookups[j].ids) \cap SeqToSet(lookups[k].ids) = {}
       /\ Flatten([k \in 1..c |-> lookups[k].ids]) = uniqueArtistIds

\* 120 ids: lookups of 50, 50 and 20.
C6_Witness ==
  /\ EnrichDone
  /\ Len(uniqueArtistIds) = 120
  /\ [k \in 1..Len(lookups) |-> Len(lookups[k].ids)] = <<50, 50, 20>>

\* The lookup got a failing answer from the API (not a consequence of a lost
\* token: the request was sent)
FailedAtApi(l) == l.requested /\ ~l.ok

\* Every artist of the lookup that the API gives genres for is in the index
GotGenres(l) ==
  \A a \in SeqToSet(l.ids) :
    HasGenres(a) => a \in DOMAIN artistGenresMap /\ artistGenresMap[a] = ServerGenres(a)

\* The tracks all of whose artists are in lookups that returned null have an
\* empty genre cell; every new item has its row.
RowsOfFailedChunks ==
  LET lost == UNION {SeqToSet(lookups[k].ids) : k \in {j \in 1..Len(lookups) : ~lookups[j].ok}}
  IN /\ Len(DataRows(sheet)) = Len(newTracks) + Len(StartData)
     /\ \A k \in 1..Len(newTracks) :
          /\ sheet[k + 1][IndexOf(Header, KeyColumn) + 1] = newTracks[k].track.id
          /\ ArtistIdsOf(<<newTracks[k]>>) \subseteq lost => sheet[k + 1][GenreColumn] = ""

\* A run whose walk returned new items goes through every chunk and to the
\* store writes: it ends written, or with a store write failure.
RunGetsToTheWrites ==
  (RunEnded /\ walkResult = "list" /\ newTracks # <<>>) =>
    /\ outcome \in {"ok", "writefail"}
    /\ Len(lookups) = Ceil(Len(uniqueArtistIds), chunkSize)
    /\ outcome = "ok" => RowsOfFailedChunks

\* C7, as claimed: if one chunk lookup fails, whatever the failure, the
\* artists of every other chunk get their genres, and the run completes.
C7_AnyFailureIsolated ==
  /\ EnrichDone =>
       \A k \in 1..Len(lookups) :
         ({j \in 1..Len(lookups) : FailedAtApi(lookups[j])} = {k}) =>
           \A j \in 1..Len(lookups) : j # k => GotGenres(lookups[j])
  /\ RunGetsToTheWrites

\* C7, amended: if one chunk lookup fails with anything but a 401, the
\* artists of every other chunk get their genres; tracks whose artists are all
\* in failed chunks get an empty genre cell; the run completes and writes a
\* row for every new item.  (A 401 resets the token, and every later lookup
\* returns null without a request.)
C7_FailureIsolatedBut401 ==
  /\ EnrichDone =>
       /\ \A k \in 1..Len(lookups) :
            ({j \in 1..Len(lookups) : FailedAtApi(lookups[j])} = {k} /\ ~lookups[k].reset) =>
              \A j \in 1..Len(lookups) : j # k => GotGenres(lookups[j])
       /\ \A k \in 1..Len(lookups) : lookups[k].ok => GotGenres(lookups[k])
       /\ \A k \in 1..Len(lookups) :
            ~lookups[k].ok => SeqToSet(lookups[k].ids) \cap DOMAIN artistGenresMap = {}
  /\ RunGetsToTheWrites

\* Three chunks, the second fails without a 401: the first track (first chunk)
\* has genres, the second (second chunk) has none, the third has.
C7_Witness ==
  /\ RunEnded
  /\ outcome = "ok"
  /\ Len(lookups) = 3
  /\ lookups[1].ok /\ lookups[3].ok
  /\ FailedAtApi(lookups[2]) /\ ~lookups[2].reset
  /\ Len(newTracks) = 3
  /\ sheet[2][GenreColumn] # ""
  /\ sheet[3][GenreColumn] = ""
  /\ sheet[4][GenreColumn] # ""

\* ------------------------------------- sheets laid out by somebody else
\* A row with the first column and the key column exchanged
KeyFirst(row) ==
  [c \in 1..Len(row) |->
     IF c = 1 THEN row[IndexOf(Header, KeyColumn) + 1]
     ELSE IF c = IndexOf(Header, KeyColumn) + 1 THEN row[1]
     ELSE row[c]]

\* A header row whose key column has another name
KeyRenamed(row) ==
  [c \in 1..Len(row) |-> IF row[c] = KeyColumn THEN "ID" ELSE row[c]]

\* Populated sheets whose columns the user moved or renamed: the key column
\* first, or the key column under another name; and the layout of the program.
ForeignSheets ==
  UNION {{<<KeyFirst(Header)>> \o [k \in 1..Len(l) |-> KeyFirst(RenderRow(l[k], FullMap(l)))],
          <<KeyRenamed(Header)>> \o RenderRows(l, FullMap(l)),
          <<Header>> \o RenderRows(l, FullMap(l))}
         : l \in SmallListings \ {<<>>}}

InitForeign ==
  /\ pages \in UNION {Paged(l) : l \in SmallListings}
  /\ hasAccess = TRUE
  /\ sheetExists = TRUE
  /\ startExists = TRUE
  /\ sheet \in ForeignSheets
  /\ startSheet = sheet
  /\ runs = MaxRuns - 1
  /\ clean = ~sheetExists
  /\ LocalsInit
  /\ FollowIdle

SpecForeign == InitForeign /\ [][Next]_vars

\* The non-empty cells of the column whose header cell, in row 1 of the sheet,
\* is the key column name; empty when no header cell has that name
NamedKeyCells(rows) ==
  LET data == GetValues(rows)
      idx == IndexOf(data[1], KeyColumn)
  IN IF idx = -1 THEN {}
     ELSE {data[r][idx + 1] : r \in 2..Len(data)} \ {""}

\* C10: on a populated sheet the known ids of a run are the non-empty cells of
\* the column that the sheet's header row names "Track ID", wherever it is;
\* none when no header cell has that name.
C10_KeyColumnByName ==
  (outcome \notin {"none", "unauthorized"} /\ StartPopulated) =>
    existingTrackIds = NamedKeyCells(startSheet)

\* A run on a sheet whose first column is named "Track ID": it took the cells
\* of the sixth column, the dates, for the known ids.
C10_Witness ==
  /\ pc = "walk"
  /\ StartPopulated
  /\ startSheet[1][1] = KeyColumn
  /\ NamedKeyCells(startSheet) = {"t1"}
  /\ existingTrackIds = {"at-t1"}

\* ------------------------------------------------- the followed artists
\* An artist object of the followed listing (SpotifyArtist): artist 2 comes
\* without a genres field, artist 3 without external_urls.
FollowedArtist(a) ==
  [id |-> "ar" \o ToString(a),
   name |-> ArtistName(a),
   hasGenres |-> a # 2,
   genres |-> ServerGenres(a),
   hasUrl |-> a # 3,
   url |-> "link-ar" \o ToString(a)]

\* The listings of followed artists: as many artists as tracks
FollowedListings ==
  {[k \in 1..Len(a) |-> FollowedArtist(a[k])]
     : a \in {Descending(S) : S \in SUBSET (1..MaxTracks)}}

\* const header = ['Artist Name', 'Genres', 'Artist ID', 'Spotify URL']
ArtistHeader == <<"Artist Name", "Genres", "Artist ID", "Spotify URL">>

ArtistKeyColumn == "Artist ID"

ArtistBlankRow == [c \in 1..Len(ArtistHeader) |-> ""]

\* sheet.insertRowsAfter(1, n) on the artists sheet
InsertArtistRowsAfter(rows, n) ==
  <<rows[1]>> \o [k \in 1..n |-> ArtistBlankRow] \o Tail(rows)

\* newArtists.map(artist => [...]): the row of one followed artist
RenderArtistRow(artist) ==
  <<artist.name,
    IF artist.hasGenres THEN Join(artist.genres, ", ") ELSE "",
    artist.id,
    IF artist.hasUrl THEN artist.url ELSE "">>

RenderArtistRows(artists) == [k \in 1..Len(artists) |-> RenderArtistRow(artists[k])]

\* followedArtists.filter(artist => !existingArtistIds.has(artist.id))
FilterNewMut(artists, known) == artists
FilterNew(artists, known) == SelectSeq(artists, LAMBDA a : a.id \notin known)

\* The artists sheets a run may find
InitialArtistSheets ==
  {[exists |-> FALSE, rows |-> <<>>],
   [exists |-> TRUE, rows |-> <<>>],
   [exists |-> TRUE, rows |-> <<ArtistBlankRow>>],
   [exists |-> TRUE, rows |-> <<ArtistHeader>>]}
  \cup {[exists |-> TRUE, rows |-> <<ArtistHeader>> \o RenderArtistRows(l)]
        : l \in FollowedListings \ {<<>>}}

\* What a run of updateFollowedArtistsSheet and a call of getAllMySavedTracks
\* leave alone
likedRun ==
  <<pc, outcome, lastRow, existingTrackIds, startExists, startSheet, prevOutcome,
    walkVars, enrichVars, writes, clean>>

\* ------------------------------------------ updateFollowedArtistsSheet
\* The function from its call to the first page fetch: the authorization
\* check and the scan of the sheet's key column.
FollowedBegins ==
  fa' = IF ~IsSpotifyAuthorized(credentials, hasAccess)
        THEN [FaIdle EXCEPT !.outcome = "unauthorized",
                            !.startExists = artistSheetExists,
                            !.startSheet = artistSheet]
        ELSE LET data == IF artistSheetExists THEN GetValues(artistSheet) ELSE <<>>
             IN [FaIdle EXCEPT
                   !.pc = "walk",
                   !.outcome = "running",
                   !.lastRow = Len(data),
                   !.existingArtistIds =
                      ExistingIds(data, IndexOf(ArtistHeader, ArtistKeyColumn)),
                   !.nextUrl = 1,
                   !.startExists = artistSheetExists,
                   !.startSheet = artistSheet]

\* updateFollowedArtistsSheet called on its own
StartFollowedRun ==
  /\ pc = "idle"
  /\ fa.pc = "idle"
  /\ tw.pc # "walk"
  /\ runs < MaxRuns
  /\ runs' = runs + 1
  /\ startAccess' = hasAccess
  /\ saw401' = FALSE
  /\ FollowedBegins
  /\ UNCHANGED <<pages, aux, hasAccess, store, likedRun, followedPages, artistStore, tw>>

\* getFollowedArtists: one turn of the while loop, one page fetch.
FetchArtistsPage ==
  /\ fa.pc = "walk"
  /\ \E resp \in Responses :
       LET next == NextOf(followedPages, fa.nextUrl)
       IN /\ hasAccess' = (hasAccess /\ ~PageResets(hasAccess, resp))
          /\ saw401' = (saw401 \/ (hasAccess /\ resp.code = 401))
          /\ fa' = IF PageSucceeds(hasAccess, resp)
                   THEN [fa EXCEPT
                           !.fetched = Append(fa.fetched, fa.nextUrl),
                           !.allArtists = fa.allArtists \o followedPages[fa.nextUrl],
                           !.nextUrl = next,
                           !.pc = IF next # 0 THEN "walk" ELSE "walked",
                           !.result = IF next # 0 THEN "none" ELSE "list"]
                   ELSE [fa EXCEPT
                           !.fetched = IF hasAccess THEN Append(fa.fetched, fa.nextUrl)
                                       ELSE fa.fetched,
                           !.pc = "walked",
                           !.result = "null"]
  /\ UNCHANGED <<pages, aux, store, likedRun, runs, startAccess, followedPages, artistStore, tw>>

\* if (followedArtists === null) return;
FollowedFetchFailed ==
  /\ fa.pc = "walked"
  /\ fa.result = "null"
  /\ fa' = [fa EXCEPT !.pc = "idle", !.outcome = "fetchfail"]
  /\ UNCHANGED <<pages, aux, hasAccess, store, likedRun, runs, startAccess, saw401,
                 followedPages, artistStore, tw>>

\* if (followedArtists.length === 0) return;
NoFollowedArtists ==
  /\ fa.pc = "walked"
  /\ fa.result = "list"
  /\ Len(fa.allArtists) = 0
  /\ fa' = [fa EXCEPT !.pc = "idle", !.outcome = "nofollowed"]
  /\ UNCHANGED <<pages, aux, hasAccess, store, likedRun, runs, startAccess, saw401,
                 followedPages, artistStore, tw>>

\* const newArtists = followedArtists.filter(...);
\* if (newArtists.length === 0) return;
FilterNewArtists ==
  /\ fa.pc = "walked"
  /\ fa.result = "list"
  /\ Len(fa.allArtists) > 0
  /\ LET new == FilterNew(fa.allArtists, fa.existingArtistIds)
     IN fa' = IF Len(new) = 0
              THEN [fa EXCEPT !.pc = "idle", !.outcome = "nonew"]
              ELSE [fa EXCEPT !.pc = "ensure", !.newArtists = new]
  /\ UNCHANGED <<pages, aux, hasAccess, store, likedRun, runs, startAccess, saw401,
                 followedPages, artistStore, tw>>

\* One store write applied to the artists sheet
ApplyArtistWrite(op, st) ==
  CASE op = "insertSheet" -> [exists |-> TRUE, rows |-> <<>>]
    [] op = "appendRow" -> [st EXCEPT !.rows = AppendRow(st.rows, ArtistHeader)]
    [] op = "setHeader" -> [st EXCEPT !.rows = SetFirstRow(st.rows, ArtistHeader)]

RECURSIVE ApplyArtistWrites(_, _)
ApplyArtistWrites(ops, st) ==
  IF ops = <<>> THEN st
  ELSE ApplyArtistWrites(Tail(ops), ApplyArtistWrite(Head(ops), st))

\* try { if (!sheet) ... else if (lastRow === 0) ... else if (...) ... }: the
\* header writes; the write after the first `done` ones throws, if any is left.
EnsureArtistSheet ==
  /\ fa.pc = "ensure"
  /\ LET plan == HeaderWrites(artistSheetExists, fa.lastRow,
                              artistSheetExists /\ artistSheet # <<>>
                                /\ Join(artistSheet[1], "") = "")
     IN \E done \in 0..Len(plan) :
          LET st == ApplyArtistWrites(SubSeq(plan, 1, done),
                                      [exists |-> artistSheetExists, rows |-> artistSheet])
          IN /\ artistSheetExists' = st.exists
             /\ artistSheet' = st.rows
             /\ fa' = IF done = Len(plan)
                      THEN [fa EXCEPT !.pc = "insert",
                                      !.writes = fa.writes \o SubSeq(plan, 1, done)]
                      ELSE [fa EXCEPT !.pc = "idle",
                                      !.outcome = AfterThrow(plan[done + 1]),
                                      !.writes = fa.writes \o SubSeq(plan, 1, done)]
  /\ UNCHANGED <<pages, aux, hasAccess, store, likedRun, runs, startAccess, saw401,
                 followedPages, tw>>

\* sheet.insertRowsAfter(1, newData.length) on the artists sheet
InsertArtistRows ==
  /\ fa.pc = "insert"
  /\ Len(fa.newArtists) > 0
  /\ \E throws \in BOOLEAN :
       IF throws
       THEN /\ fa' = [fa EXCEPT !.pc = "idle", !.outcome = AfterThrow("insertRowsAfter")]
            /\ UNCHANGED artistSheet
       ELSE /\ fa' = [fa EXCEPT !.pc = "setvalues",
                                !.writes = Append(fa.writes, "insertRowsAfter")]
            /\ artistSheet' = InsertArtistRowsAfter(artistSheet, Len(fa.newArtists))
  /\ UNCHANGED <<pages, aux, hasAccess, store, likedRun, runs, startAccess, saw401,
                 followedPages, artistSheetExists, tw>>

\* range.setValues(newData) on the artists sheet
WriteArtistRows ==
  /\ fa.pc = "setvalues"
  /\ \E throws \in BOOLEAN :
       IF throws
       THEN /\ fa' = [fa EXCEPT !.pc = "idle", !.outcome = AfterThrow("setValues")]
            /\ UNCHANGED artistSheet
       ELSE /\ fa' = [fa EXCEPT !.pc = "idle", !.outcome = "ok",
                                !.writes = Append(fa.writes, "setValues")]
            /\ artistSheet' = SetValues(artistSheet, RenderArtistRows(fa.newArtists))
  /\ UNCHANGED <<pages, aux, hasAccess, store, likedRun, runs, startAccess, saw401,
                 followedPages, artistSheetExists, tw>>

\* ------------------------------------------------- getAllMySavedTracks
\* getAllMySavedTracks is called
CallGetAll ==
  /\ pc = "idle"
  /\ fa.pc = "idle"
  /\ tw.pc = "idle"
  /\ runs < MaxRuns
  /\ runs' = runs + 1
  /\ startAccess' = hasAccess
  /\ saw401' = FALSE
  /\ tw' = [TwIdle EXCEPT !.pc = "walk", !.nextUrl = 1]
  /\ UNCHANGED <<pages, aux, hasAccess, store, likedRun, followedPages, artistStore, fa>>

\* getAllMySavedTracks: one turn of the while loop, one page fetch.
FetchAllPage ==
  /\ tw.pc = "walk"
  /\ IF GetSpotifyServiceThrows(credentials)
     THEN /\ tw' = [tw EXCEPT !.pc = "done", !.result = "thrown"]
          /\ UNCHANGED <<hasAccess, saw401>>
     ELSE
     \E resp \in Responses :
       LET next == NextOf(pages, tw.nextUrl)
       IN /\ hasAccess' = (hasAccess /\ ~PageResets(hasAccess, resp))
          /\ saw401' = (saw401 \/ (hasAccess /\ resp.code = 401))
          /\ tw' = IF PageSucceeds(hasAccess, resp)
                   THEN [tw EXCEPT
                           !.fetched = Append(tw.fetched, tw.nextUrl),
                           !.allTracks = tw.allTracks \o pages[tw.nextUrl],
                           !.nextUrl = next,
                           !.pc = IF next # 0 THEN "walk" ELSE "done",
                           !.result = IF next # 0 THEN "none" ELSE "list"]
                   ELSE [tw EXCEPT
                           !.fetched = IF hasAccess THEN Append(tw.fetched, tw.nextUrl)
                                       ELSE tw.fetched,
                           !.pc = "done",
                           !.result = "null"]
  /\ UNCHANGED <<pages, aux, store, likedRun, runs, startAccess, followedPages, artistStore, fa>>

\* ------------------------------------------------ updateAllSpotifyData
\* updateLikedSongsSheet(); updateFollowedArtistsSheet(): the second call,
\* made when the first has returned.
ThenFollowedMut ==
  /\ pc = "idle"
  /\ outcome \in {"ok", "nonew"}
  /\ fa.pc = "idle"
  /\ fa.outcome = "none"
  /\ tw.pc = "idle"
  /\ FollowedBegins
  /\ UNCHANGED <<pages, aux, hasAccess, store, likedRun, runs, startAccess, saw401,
                 followedPages, artistStore, tw>>
ThenFollowed ==
  /\ pc = "idle"
  /\ outcome \notin {"none", "running", "thrown"}
  /\ fa.pc = "idle"
  /\ fa.outcome = "none"
  /\ tw.pc = "idle"
  /\ FollowedBegins
  /\ UNCHANGED <<pages, aux, hasAccess, store, likedRun, runs, startAccess, saw401,
                 followedPages, artistStore, tw>>

\* ------ one call of one of updateLikedSongsSheet,
\* updateFollowedArtistsSheet, getAllMySavedTracks
InitCalls ==
  /\ hasAccess \in BOOLEAN
  /\ credentials \in BOOLEAN
  /\ probe = ProbeIdle
  /\ triggers = <<>>
  /\ runs = MaxRuns - 1
  /\ LocalsInit
  /\ fa = FaIdle
  /\ tw = TwIdle
  /\ \/ /\ pages \in UNION {Paged(l) : l \in SmallListings}
        /\ \E s \in InitialSheets :
             /\ sheetExists = s.exists
             /\ sheet = s.rows
        /\ followedPages = << <<>> >>
        /\ artistSheetExists = FALSE
        /\ artistSheet = <<>>
     \/ /\ pages = << <<>> >>
        /\ sheetExists = FALSE
        /\ sheet = <<>>
        /\ followedPages \in UNION {Paged(l) : l \in FollowedListings}
        /\ \E s \in InitialArtistSheets :
             /\ artistSheetExists = s.exists
             /\ artistSheet = s.rows
  /\ startExists = sheetExists
  /\ startSheet = sheet
  /\ clean = ~sheetExists

FollowedRun ==
  \/ FetchArtistsPage
  \/ FollowedFetchFailed
  \/ NoFollowedArtists
  \/ FilterNewArtists
  \/ EnsureArtistSheet
  \/ InsertArtistRows
  \/ WriteArtistRows

NextCalls ==
  \/ NextRun
  \/ StartFollowedRun
  \/ FollowedRun
  \/ CallGetAll
  \/ FetchAllPage

SpecCalls == InitCalls /\ [][NextCalls]_vars

\* ------------------------------ updateAllSpotifyData, called once
InitAll ==
  /\ pages \in UNION {Paged(l) : l \in SmallListings}
  /\ hasAccess = TRUE
  /\ \E s \in {[exists |-> FALSE, rows |-> <<>>], [exists |-> TRUE, rows |-> <<Header>>]} :
       /\ sheetExists = s.exists
       /\ sheet = s.rows
       /\ startExists = s.exists
       /\ startSheet = s.rows
  /\ runs = MaxRuns - 1
  /\ clean = ~sheetExists
  /\ LocalsInit
  /\ followedPages \in {<<l>> : l \in FollowedListings}
  /\ \E s \in {[exists |-> FALSE, rows |-> <<>>],
               [exists |-> TRUE, rows |-> <<ArtistHeader>>]} :
       /\ artistSheetExists = s.exists
       /\ artistSheet = s.rows
  /\ fa = FaIdle
  /\ tw = TwIdle
  /\ AuxIdle

NextAll ==
  \/ NextRun
  \/ ThenFollowed
  \/ FollowedRun

SpecAll == InitAll /\ [][NextAll]_vars

\* ------------- updateAllSpotifyData, called once, many artists upstream
InitAllWide ==
  /\ pages \in {<<l>> : l \in {WideListing(n, n, n, FALSE) : n \in {1, 100, MaxArtistCount}}
                             \cup {<<>>}}
  /\ hasAccess = TRUE
  /\ sheetExists = FALSE
  /\ sheet = <<>>
  /\ startExists = FALSE
  /\ startSheet = <<>>
  /\ runs = MaxRuns - 1
  /\ clean = TRUE
  /\ LocalsInit
  /\ followedPages \in {<< <<FollowedArtist(1)>> >>, << <<>> >>}
  /\ \E s \in {[exists |-> FALSE, rows |-> <<>>],
               [exists |-> TRUE, rows |-> <<ArtistHeader>>]} :
       /\ artistSheetExists = s.exists
       /\ artistSheet = s.rows
  /\ fa = FaIdle
  /\ tw = TwIdle
  /\ AuxIdle

SpecAllWide == InitAllWide /\ [][NextAll]_vars

\* ------------------------- the functions of the remote boundary, one call
\* The status codes and the bodies of a response.  "shape": JSON of the
\* declared shape; "fields": JSON without the top-level field (items, artists);
\* "items": JSON whose items lack their fields (track); "garbage": not JSON.
ProbeCodes == {200, 201, 401, 429, 500}
ProbeBodies == {"shape", "fields", "items", "garbage"}
ProbeResponses == [code : ProbeCodes, body : ProbeBodies]
PageFns == {"getNewSavedTracks", "getAllMySavedTracks", "getFollowedArtists"}

\* Whether the try block of the function runs to its end on this body:
\* JSON.parse in fetchSpotifyApi; JSON.parse, if (pageData.items), the loop
\* over item.track.id and pageData.next in getNewSavedTracks; JSON.parse,
\* if (pageData.items) and concat in getAllMySavedTracks; JSON.parse and
\* pageData.artists.items in getFollowedArtists.
TryCompletes(fn, body) ==
  CASE fn = "fetchSpotifyApi" -> body # "garbage"
    [] fn = "getNewSavedTracks" -> body \in {"shape", "fields"}
    [] fn = "getAllMySavedTracks" -> body # "garbage"
    [] fn = "getFollowedArtists" -> body \in {"shape", "items"}

\* The response as the function reads it
ReadBy(fn, resp) == [code |-> resp.code, parses |-> TryCompletes(fn, resp.body)]

\* The numbers of ids getArtistsDetails is called with
ProbeIdCounts == {0, 1, chunkSize, chunkSize + 1, MaxArtistCount}

\* fetchSpotifyApi(endpoint) called
CallFetchSpotifyApi ==
  /\ \E resp \in ProbeResponses :
       LET r == ReadBy("fetchSpotifyApi", resp)
           thrown == GetSpotifyServiceThrows(credentials)
       IN /\ probe' =
               [fn |-> "fetchSpotifyApi", access |-> hasAccess, given |-> 0,
                code |-> resp.code, body |-> resp.body,
                result |-> IF thrown THEN "thrown"
                           ELSE IF ApiSucceeds(hasAccess, r) THEN "body" ELSE "null",
                reset |-> ~thrown /\ ApiResets(hasAccess, r),
                requested |-> ~thrown /\ ApiRequests(hasAccess),
                sent |-> <<>>]
          /\ hasAccess' = (hasAccess /\ ~probe'.reset)
  /\ UNCHANGED <<pages, store, likedRun, runs, startAccess, saw401, followedPages,
                 artistStore, fa, tw, credentials, triggers>>

\* getArtistsDetails(artistIds) called with n ids
CallGetArtistsDetails ==
  /\ \E n \in ProbeIdCounts, resp \in ProbeResponses :
       LET r == ReadBy("fetchSpotifyApi", resp)
           ids == RequestedIds(Range(1, n))
           thrown == n > 0 /\ GetSpotifyServiceThrows(credentials)
           calls == n > 0 /\ ~thrown
       IN /\ probe' =
               [fn |-> "getArtistsDetails", access |-> hasAccess, given |-> n,
                code |-> resp.code, body |-> resp.body,
                result |-> IF n = 0 THEN "empty"
                           ELSE IF thrown THEN "thrown"
                           ELSE IF ~ApiSucceeds(hasAccess, r) THEN "null"
                           ELSE IF resp.body = "fields" THEN "undefined"
                           ELSE "list",
                reset |-> calls /\ ApiResets(hasAccess, r),
                requested |-> calls /\ ApiRequests(hasAccess),
                sent |-> IF calls /\ ApiRequests(hasAccess) THEN ids ELSE <<>>]
          /\ hasAccess' = (hasAccess /\ ~probe'.reset)
  /\ UNCHANGED <<pages, store, likedRun, runs, startAccess, saw401, followedPages,
                 artistStore, fa, tw, credentials, triggers>>

\* One turn of the while loop of a walk: one page fetch
CallPageFetch ==
  /\ \E fn \in PageFns, resp \in ProbeResponses :
       LET r == ReadBy(fn, resp)
           thrown == GetSpotifyServiceThrows(credentials)
       IN /\ probe' =
               [fn |-> fn, access |-> hasAccess, given |-> 0,
                code |-> resp.code, body |-> resp.body,
                result |-> IF thrown THEN "thrown"
                           ELSE IF PageSucceeds(hasAccess, r) THEN "page" ELSE "null",
                reset |-> ~thrown /\ PageResets(hasAccess, r),
                requested |-> ~thrown /\ hasAccess,
                sent |-> <<>>]
          /\ hasAccess' = (hasAccess /\ ~probe'.reset)
  /\ UNCHANGED <<pages, store, likedRun, runs, startAccess, saw401, followedPages,
                 artistStore, fa, tw, credentials, triggers>>

\* handleAuthCallback: the user has authorized the script again
Authorize ==
  /\ ~GetSpotifyServiceThrows(credentials)
  /\ ~hasAccess
  /\ hasAccess' = TRUE
  /\ UNCHANGED <<pages, store, likedRun, runs, startAccess, saw401, followedPages,
                 artistStore, fa, tw, credentials, probe, triggers>>

InitBoundary ==
  /\ pages = << <<>> >>
  /\ hasAccess \in BOOLEAN
  /\ sheetExists = FALSE
  /\ sheet = <<>>
  /\ startExists = FALSE
  /\ startSheet = <<>>
  /\ runs = 0
  /\ clean = TRUE
  /\ LocalsInit
  /\ followedPages = << <<>> >>
  /\ artistSheetExists = FALSE
  /\ artistSheet = <<>>
  /\ fa = FaIdle
  /\ tw = TwIdle
  /\ credentials \in BOOLEAN
  /\ probe = ProbeIdle
  /\ triggers = <<>>

NextBoundary ==
  \/ CallFetchSpotifyApi
  \/ CallGetArtistsDetails
  \/ CallPageFetch
  \/ Authorize

SpecBoundary == InitBoundary /\ [][NextBoundary]_vars

\* ------------------------------------------------- trigger management
\* const TRIGGER_FUNCTION_NAME = 'updateAllSpotifyData'
TRIGGER_FUNCTION_NAME == "updateAllSpotifyData"

\* The handler functions a project trigger may name
Handlers == {TRIGGER_FUNCTION_NAME, "updateLikedSongsSheet", "onOpen"}

\* trigger.getHandlerFunction() === TRIGGER_FUNCTION_NAME
IsTargetMut(t) == FALSE
IsTarget(t) == t.handler = TRIGGER_FUNCTION_NAME

\* A unique id no trigger of the project has had: above the ids in use and
\* above the last id issued, which probe.given keeps
FreshId(ts) == 1 + Max(Len(ts), Max(probe.given,
                 IF ts = <<>> THEN 0
                 ELSE CHOOSE m \in {ts[k].id : k \in 1..Len(ts)} :
                        \A k \in 1..Len(ts) : ts[k].id <= m))

\* createDailyTrigger: delete the triggers of the target function, then
\* create the daily one
CreateDailyTrigger ==
  /\ FreshId(triggers) <= MaxTriggerId
  /\ triggers' = Append(SelectSeq(triggers, LAMBDA t : ~IsTarget(t)),
                        [id |-> FreshId(triggers), handler |-> TRIGGER_FUNCTION_NAME])
  /\ probe' = [ProbeIdle EXCEPT !.fn = "createDailyTrigger",
                                !.given = FreshId(triggers)]
  /\ UNCHANGED <<pages, hasAccess, store, likedRun, runs, startAccess, saw401,
                 followedPages, artistStore, fa, tw, credentials>>

\* deleteTriggers: delete every trigger of the project
DeleteTriggersMut ==
  /\ triggers' = SelectSeq(triggers, LAMBDA t : ~IsTarget(t))
  /\ probe' = [ProbeIdle EXCEPT !.fn = "deleteTriggers", !.given = probe.given]
  /\ UNCHANGED <<pages, hasAccess, store, likedRun, runs, startAccess, saw401,
                 followedPages, artistStore, fa, tw, credentials>>
DeleteTriggers ==
  /\ triggers' = <<>>
  /\ probe' = [ProbeIdle EXCEPT !.fn = "deleteTriggers", !.given = probe.given]
  /\ UNCHANGED <<pages, hasAccess, store, likedRun, runs, startAccess, saw401,
                 followedPages, artistStore, fa, tw, credentials>>

\* The triggers a project may hold at first: any handlers, distinct ids
InitialTriggers ==
  UNION {{[k \in 1..n |-> [id |-> k, handler |-> h[k]]] : h \in [1..n -> Handlers]}
           : n \in 0..MaxTriggers}

InitTriggers ==
  /\ pages = << <<>> >>
  /\ hasAccess = TRUE
  /\ sheetExists = FALSE
  /\ sheet = <<>>
  /\ startExists = FALSE
  /\ startSheet = <<>>
  /\ runs = 0
  /\ clean = TRUE
  /\ LocalsInit
  /\ followedPages = << <<>> >>
  /\ artistSheetExists = FALSE
  /\ artistSheet = <<>>
  /\ fa = FaIdle
  /\ tw = TwIdle
  /\ credentials = TRUE
  /\ probe = ProbeIdle
  /\ triggers \in InitialTriggers

NextTriggers ==
  \/ CreateDailyTrigger
  \/ DeleteTriggers

SpecTriggers == InitTriggers /\ [][NextTriggers]_vars

\* --------------------------------- what the claims say: the remote calls
\* A remote call is being made in this step: the page fetch of a walk, or the
\* artists lookup of a chunk
InPageFetch == pc = "walk" \/ fa.pc = "walk" \/ tw.pc = "walk"
InLookup == pc = "enrich"

\* The call made in this step returned null to its caller
CallReturnedNull ==
  /\ pc = "walk" => walkResult' = "null"
  /\ fa.pc = "walk" => fa'.result = "null"
  /\ tw.pc = "walk" => tw'.result = "null"
  /\ pc = "enrich" =>
       /\ ~lookups'[Len(lookups')].ok
       /\ artistGenresMap' = artistGenresMap

\* C11: a step in which a remote call gets status 401 (a page fetch of
\* getNewSavedTracks, getAllMySavedTracks or getFollowedArtists, or the
\* fetchSpotifyApi call of an artists lookup) leaves the token reset and the
\* call returns null.
C11_ResetOn401 ==
  [][(~saw401 /\ saw401') =>
       /\ InPageFetch \/ InLookup
       /\ hasAccess
       /\ ~hasAccess'
       /\ CallReturnedNull]_vars

\* A 401 at an artists lookup: the token is gone and the lookup gave nothing.
C11_Witness ==
  /\ saw401
  /\ ~hasAccess
  /\ Len(lookups) >= 1
  /\ lookups[Len(lookups)].requested
  /\ ~lookups[Len(lookups)].ok

\* C12: in a run the token is reset exactly when a remote call of the run
\* got status 401; any other answer leaves the authorization as the run found
\* it.
C12_ResetOnlyOn401 == hasAccess = (startAccess /\ ~saw401)

\* A run that failed at a page fetch without a 401 and still has its token.
C12_Witness ==
  /\ RunEnded
  /\ outcome = "fetchfail"
  /\ Len(fetched) >= 2
  /\ ~saw401
  /\ hasAccess

\* The requests of the three walks so far
WalkRequests == <<fetched, fa.fetched, tw.fetched>>

\* C13: no request is made again.  In each walk the cursors requested are the
\* pages 1, 2, ... each once; and once a walk has its null result (a 429 or
\* any other failed fetch) it makes no further request.
C13_NoRetry ==
  /\ [](\A w \in 1..3 : WalkRequests[w] = Range(1, Len(WalkRequests[w])))
  /\ [][/\ (walkResult = "null" /\ walkResult' = "null") => fetched' = fetched
        /\ (fa.result = "null" /\ fa'.result = "null") => fa'.fetched = fa.fetched
        /\ (tw.result = "null" /\ tw'.result = "null") => tw'.fetched = tw.fetched
        /\ (pc = "walk" /\ walkResult' = "null") => pc' # "walk"
        /\ (fa.pc = "walk" /\ fa'.result = "null") => fa'.pc # "walk"
        /\ (tw.pc = "walk" /\ tw'.result = "null") => tw'.pc # "walk"]_vars

\* A walk over three pages whose second fetch failed without a 401: the run
\* is over and the third page was never requested, the second not again.
C13_Witness ==
  /\ RunEnded
  /\ walkResult = "null"
  /\ ~saw401
  /\ Len(pages) = 3
  /\ fetched = <<1, 2>>

\* C14: a walk of getNewSavedTracks in which a page fetch failed returns null
\* and not the items of the pages before it, and updateLikedSongsSheet then
\* ends without a store write, the sheet as the run found it; the walk returns
\* a list only when it ended at a page without next or at a known id.
C14_AllOrNothing ==
  /\ walkResult = "null" =>
       /\ writes = <<>>
       /\ sheetExists = startExists
       /\ sheet = startSheet
       /\ pc \in {"walked", "idle"}
       /\ RunEnded => outcome = "fetchfail"
  /\ walkResult = "list" =>
       \/ foundExistingTrack
       \/ fetched = Range(1, Len(pages))

\* A run that ended after its second page failed, with the new items of the
\* first page collected and left unwritten.
C14_Witness ==
  /\ RunEnded
  /\ walkResult = "null"
  /\ Len(fetched) >= 2
  /\ Len(newTracks) >= 1
  /\ sheet = startSheet

\* One call under the scheduling of the script: a function runs to its end
\* without being preempted, so a walk that is in its while loop takes its
\* next turn.
SpecCallsFair ==
  /\ InitCalls
  /\ [][NextCalls]_vars
  /\ WF_vars(FetchPage)
  /\ WF_vars(FetchArtistsPage)
  /\ WF_vars(FetchAllPage)

\* The collection each walk pages through
WalkPages == <<pages, followedPages, pages>>
WalkResults == <<walkResult, fa.result, tw.result>>

\* C15: over a finite collection whose last page has no next, each of the
\* three walks ends, with at most one fetch per page; a walk that returned a
\* list followed next to the last page, or (getNewSavedTracks only) stopped
\* at a known id; any other walk that ended had a failed fetch, or, called
\* without credentials, ended at getSpotifyService before any fetch.
C15_WalksTerminate ==
  /\ [](\A w \in 1..3 :
          /\ Len(WalkRequests[w]) <= Len(WalkPages[w])
          /\ WalkResults[w] = "list" =>
               \/ WalkRequests[w] = Range(1, Len(WalkPages[w]))
               \/ w = 1 /\ foundExistingTrack)
  /\ (pc = "walk") ~> (pc # "walk" /\ walkResult \in {"list", "null"})
  /\ (fa.pc = "walk") ~> (fa.pc # "walk" /\ fa.result \in {"list", "null"})
  /\ (tw.pc = "walk") ~> (tw.pc # "walk" /\ tw.result \in {"list", "null", "thrown"})

\* getAllMySavedTracks came to the end of a collection of three pages.
C15_Witness ==
  /\ tw.pc = "done"
  /\ tw.result = "list"
  /\ Len(pages) = 3
  /\ tw.fetched = <<1, 2, 3>>

\* A remote call of updateLikedSongsSheet, of updateFollowedArtistsSheet is
\* still to come or may be
LikedCallsAhead == pc \in {"walk", "walked", "enrich"}
FollowedCallsAhead == fa.pc \in {"walk", "walked"}

\* C16, as claimed: in one call of updateAllSpotifyData no store write is
\* made while a remote call of that call is still to come.
C16_NoWriteBeforeLastCall ==
  (LikedCallsAhead \/ FollowedCallsAhead) => writes = <<>> /\ fa.writes = <<>>

\* C16, amended: within each of the two functions no store write is made
\* while a remote call of that function is still to come, and the function's
\* sheet is as the function found it; the writes of updateLikedSongsSheet do
\* precede the remote calls of updateFollowedArtistsSheet.
C16_NoWriteBeforeLastCallPerFunction ==
  /\ LikedCallsAhead =>
       /\ writes = <<>>
       /\ sheetExists = startExists
       /\ sheet = startSheet
  /\ FollowedCallsAhead =>
       /\ fa.writes = <<>>
       /\ artistSheetExists = fa.startExists
       /\ artistSheet = fa.startSheet

\* updateFollowedArtistsSheet is about to fetch its first page, the rows of
\* updateLikedSongsSheet already written.
C16_Witness ==
  /\ fa.pc = "walk"
  /\ fa.fetched = <<>>
  /\ outcome = "ok"
  /\ "setValues" \in SeqToSet(writes)
  /\ fa.writes = <<>>

IsSuffixOf(s, t) == Len(s) <= Len(t) /\ s = SubSeq(t, Len(t) - Len(s) + 1, Len(t))

\* The run before this one ended in the catch of its try block, the upstream
\* is as that run saw it, and the rows the sheet held are the older part of
\* the upstream listing.
AfterPartialWrite ==
  /\ prevOutcome = "writefail"
  /\ IsSuffixOf(KeyCells(startSheet), ItemIds(Flatten(pages)))

\* C17, as claimed: a run without failure that follows a run whose store
\* write failed part-way leaves the header and exactly one data row per
\* upstream item, newest first, without a duplicate or a leftover row.
C17_SelfHeals ==
  (RunEnded /\ AfterPartialWrite /\ outcome \in {"ok", "nonew"}) =>
    /\ sheet[1] = Header
    /\ Len(DataRows(sheet)) = Len(Flatten(pages))
    /\ KeyCells(sheet) = ItemIds(Flatten(pages))

\* The run after a failed setValues ended without failure, and a row the
\* failed run had inserted is still blank between the new rows and the old.
C17_Witness ==
  /\ RunEnded
  /\ AfterPartialWrite
  /\ outcome = "ok"
  /\ KeyCells(sheet) = ItemIds(Flatten(pages))
  /\ \E r \in 2..(Len(sheet) - 1) : IsBlankRow(sheet[r]) /\ ~IsBlankRow(sheet[r + 1])

\* C18: an error raised by a store write of updateLikedSongsSheet or of
\* updateFollowedArtistsSheet never reaches the caller: the function ends in
\* its catch and returns.
C18_WriteErrorsCaught ==
  /\ outcome # "thrown"
  /\ fa.outcome # "thrown"
  /\ outcome = "writefail" => pc = "idle"
  /\ fa.outcome = "writefail" => fa.pc = "idle"

\* A store write of updateLikedSongsSheet threw after the sheet was created,
\* updateAllSpotifyData went on to call updateFollowedArtistsSheet, whose
\* setValues threw as well.
C18_Witness ==
  /\ outcome = "writefail"
  /\ writes = <<"insertSheet">>
  /\ fa.outcome = "writefail"
  /\ "insertRowsAfter" \in SeqToSet(fa.writes)

\* The data rows of the artists sheet when updateFollowedArtistsSheet began
ArtistStartData == IF fa.startExists THEN DataRows(fa.startSheet) ELSE <<>>

\* C19: the data rows a call of updateLikedSongsSheet or of
\* updateFollowedArtistsSheet found in its sheet are in the sheet at every
\* moment of the call and after it, cell by cell and in their order: they are
\* the last data rows of the sheet.
C19_RowsKept ==
  /\ IsSuffixOf(StartData, DataRows(sheet))
  /\ IsSuffixOf(ArtistStartData, DataRows(artistSheet))

\* updateFollowedArtistsSheet wrote two new rows above the row it found.
C19_Witness ==
  /\ fa.pc = "idle"
  /\ fa.outcome = "ok"
  /\ Len(fa.newArtists) = 2
  /\ Len(ArtistStartData) = 1
  /\ Len(DataRows(artistSheet)) = 3

\* The key column of every data row, top to bottom
TrackIdColumn(rows) ==
  [k \in 1..Len(DataRows(rows)) |-> DataRows(rows)[k][IndexOf(Header, KeyColumn) + 1]]

ProbeResp == [code |-> probe.code, body |-> probe.body]
AsFetchSpotifyApi == ReadBy("fetchSpotifyApi", ProbeResp)
PageFetched == probe.fn \in PageFns /\ probe.result # "thrown"

C22_NeverThrows == probe.result # "thrown"

\* getFollowedArtists is called while the client id and secret are not set:
\* getSpotifyService throws inside the loop, outside any try block.
C22_Witness ==
  /\ ~credentials
  /\ probe.fn = "getFollowedArtists"
  /\ probe.result = "thrown"
  /\ ~probe.requested

\* C23, as claimed: a lookup of the enrichment loop is followed by the pacing
\* pause exactly when another chunk is still to be looked up, whether the
\* lookup succeeded or not.
C23_PauseBetweenChunks ==
  \A k \in 1..Len(lookups) :
    lookups[k].paused = (k * chunkSize < Len(uniqueArtistIds))

\* The first of several lookups failed and the loop went on to the second
\* without the pause.
C23_Witness ==
  /\ Len(lookups) >= 2
  /\ Len(uniqueArtistIds) > chunkSize
  /\ lookups[1].requested
  /\ ~lookups[1].ok
  /\ ~lookups[1].paused
  /\ lookups[2].requested

\* The HTTP requests sent so far by the run: page fetches of both walks and
\* artists lookups
RequestsSent ==
  Len(fetched) + Len(fa.fetched)
    + Cardinality({k \in 1..Len(lookups) : lookups[k].requested})

\* C24: once a remote call of a run got a 401, the run sends no further HTTP
\* request: the lookups after it end at the access check and add no genres,
\* and the updateFollowedArtistsSheet that updateAllSpotifyData calls next
\* returns at its authorization check, its sheet neither read nor written.
C24_QuietAfter401 ==
  /\ [](saw401 => ~hasAccess)
  /\ [][(saw401 /\ saw401') => RequestsSent' = RequestsSent]_vars
  /\ [](\A j \in 1..Len(lookups) : \A k \in (j + 1)..Len(lookups) :
          lookups[j].reset =>
            /\ ~lookups[k].requested
            /\ ~lookups[k].ok
            /\ SeqToSet(lookups[k].ids) \cap DOMAIN artistGenresMap = {})
  /\ [][(saw401 /\ fa.outcome = "none" /\ fa'.outcome # "none") =>
          /\ fa'.outcome = "unauthorized"
          /\ fa'.pc = "idle"
          /\ artistStore' = artistStore]_vars
  /\ [](fa.outcome = "unauthorized" =>
          /\ fa.pc = "idle"
          /\ fa.fetched = <<>>
          /\ fa.lastRow = 0
          /\ fa.existingArtistIds = {}
          /\ fa.writes = <<>>
          /\ artistSheetExists = fa.startExists
          /\ artistSheet = fa.startSheet)

\* The first of three lookups got the 401, the two after it sent nothing,
\* the rows were written, and updateFollowedArtistsSheet returned at once.
C24_Witness ==
  /\ saw401
  /\ Len(lookups) = 3
  /\ lookups[1].reset
  /\ ~lookups[3].requested
  /\ outcome = "ok"
  /\ fa.outcome = "unauthorized"

\* The Artist ID column of the data rows, top to bottom
ArtistIdColumn(rows) ==
  [k \in 1..Len(DataRows(rows)) |->
     DataRows(rows)[k][IndexOf(ArtistHeader, ArtistKeyColumn) + 1]]

\* The upstream followed artists, all pages, whose id the sheet did not hold
\* when updateFollowedArtistsSheet began
ArtistsToAdd ==
  SelectSeq(Flatten(followedPages),
            LAMBDA a : a.id \notin SeqToSet(ArtistIdColumn(
                         IF fa.startExists THEN fa.startSheet ELSE <<>>)))

FollowedEnded == fa.pc = "idle" /\ fa.outcome \notin {"none", "running"}

\* C25: when every page fetch succeeded and no store write failed,
\* updateFollowedArtistsSheet has put right below the header the rows of
\* exactly the upstream followed artists whose id the Artist ID column did
\* not hold, in upstream order, above the rows it found, and every upstream
\* id is then in the column; when a page fetch failed it has written nothing.
C25_FollowedPrepended ==
  /\ (FollowedEnded /\ fa.outcome = "ok") =>
       /\ fa.result = "list"
       /\ fa.fetched = Range(1, Len(followedPages))
       /\ artistSheet[1] = ArtistHeader
       /\ DataRows(artistSheet) = RenderArtistRows(ArtistsToAdd) \o ArtistStartData
       /\ \A a \in SeqToSet(Flatten(followedPages)) :
            a.id \in SeqToSet(ArtistIdColumn(artistSheet))
  /\ (FollowedEnded /\ fa.outcome \in {"nonew", "nofollowed"}) =>
       /\ ArtistsToAdd = <<>>
       /\ fa.writes = <<>>
       /\ artistSheet = fa.startSheet
  /\ fa.result = "null" =>
       /\ fa.writes = <<>>
       /\ artistSheetExists = fa.startExists
       /\ artistSheet = fa.startSheet
       /\ FollowedEnded => fa.outcome = "fetchfail"

\* Of three followed artists on two pages or more the sheet held the second:
\* the first and the third were written above it.
C25_Witness ==
  /\ FollowedEnded
  /\ fa.outcome = "ok"
  /\ Len(followedPages) >= 2
  /\ Len(Flatten(followedPages)) = 3
  /\ SeqToSet(ArtistIdColumn(fa.startSheet)) = {Flatten(followedPages)[2].id}
  /\ Len(fa.newArtists) = 2

\* The call began without valid access: the credentials are missing or no
\* token is stored
BeganUnauthorized == ~credentials \/ ~startAccess

\* C26: a call of updateLikedSongsSheet or of updateFollowedArtistsSheet that
\* begins without valid access returns at its first statement: no request
\* was sent, the sheet was not read, the store is as it was, nothing thrown.
C26_UnauthorizedNoOp ==
  /\ (BeganUnauthorized /\ outcome # "none") =>
       /\ RunEnded
       /\ outcome = "unauthorized"
       /\ fetched = <<>>
       /\ lookups = <<>>
       /\ lastRow = 0
       /\ existingTrackIds = {}
       /\ writes = <<>>
       /\ sheetExists = startExists
       /\ sheet = startSheet
  /\ (BeganUnauthorized /\ fa.outcome # "none") =>
       /\ FollowedEnded
       /\ fa.outcome = "unauthorized"
       /\ fa.fetched = <<>>
       /\ fa.lastRow = 0
       /\ fa.existingArtistIds = {}
       /\ fa.writes = <<>>
       /\ artistSheetExists = fa.startExists
       /\ artistSheet = fa.startSheet

\* updateFollowedArtistsSheet was called without credentials on a sheet that
\* holds artists.
C26_Witness ==
  /\ ~credentials
  /\ FollowedEnded
  /\ fa.outcome = "unauthorized"
  /\ Len(DataRows(artistSheet)) >= 1

\* C27: a request of getArtistsDetails carries between 1 and 50 ids: called
\* with no id the function returns the empty list and sends nothing; called
\* with more than 50 ids it asks for the first 50 of them, otherwise for all.
C27_LookupSize ==
  probe.fn = "getArtistsDetails" =>
    /\ probe.given = 0 => probe.result = "empty" /\ ~probe.requested
    /\ ~probe.requested => probe.sent = <<>>
    /\ probe.requested =>
         /\ Len(probe.sent) \in 1..50
         /\ probe.sent = Range(1, Min(probe.given, 50))

\* getArtistsDetails was called with 51 ids and asked for 50 of them.
C27_Witness ==
  /\ probe.fn = "getArtistsDetails"
  /\ probe.given = 51
  /\ probe.requested
  /\ Len(probe.sent) = 50

\* C28: in updateAllSpotifyData the call of updateFollowedArtistsSheet begins
\* only when updateLikedSongsSheet has returned, and it does begin however
\* that call ended: rows written, no new items, fetch failure, store-write
\* failure or no authorization.
C28_LikedThenFollowed ==
  /\ fa.outcome # "none" => RunEnded
  /\ (RunEnded /\ fa.outcome = "none") => ENABLED ThenFollowed

\* updateLikedSongsSheet ended in its catch, and updateFollowedArtistsSheet
\* then ran to its end and wrote its rows.
C28_Witness ==
  /\ outcome = "writefail"
  /\ FollowedEnded
  /\ fa.outcome = "ok"

\* The triggers of the other handler functions, in order
OtherTriggers(ts) == SelectSeq(ts, LAMBDA t : t.handler # TRIGGER_FUNCTION_NAME)

====
